---- MODULE Spec2Model ----
(***************************************************************************)
(* A model of the nnet toolkit's deep autoencoder classifier               *)
(* (nnet/DeepAutoencoderClassifier.py) and of the gradient-check harness   *)
(* (NeuralNetworkCore_test.py), as four scenarios over one state:          *)
(*   SpecBprop      fprop, then cost_function and bprop                    *)
(*   SpecPreTrain   __init__, then pre_train statement by statement        *)
(*   SpecGradCheck  the gradient-check tests statement by statement        *)
(*   SpecPredict    predict                                                *)
(*                                                                         *)
(* Matrices are sequences of rows of integers.  Every quantity the code    *)
(* divides by the batch size m (1./m*np.dot(..)) is kept as its numerator  *)
(* over the common denominator m, so the arithmetic stays exact.           *)
(***************************************************************************)
EXTENDS Integers, Sequences, FiniteSets, TLC

VARIABLES
    pc,          \* position of the running scenario
    n_nodes,     \* layer topology [d] + n_hid + [k]
    wts_,        \* the network's stored weight collection
    decay,       \* self.decay (scl_decay)
    X,           \* data matrix, first row the constant bias row
    y,           \* label matrix k x m (None when absent)
    act,         \* self.act, the activation cache
    dE_dW,       \* <<weights used, what bprop returned>>
    E,           \* <<weights used, what cost_function returned>>
    ret,         \* what predict returned
    args,        \* the argument lists given to __init__ and pre_train
    stacked_ae,  \* self.stacked_ae, one autoencoder per hidden layer
    X_tf,        \* pre_train's local X_tf
    i,           \* pre_train's loop index
    log,         \* the autoencoders fitted so far, in call order
    fineTuned,   \* minimisations run over the network's own weights
    test,        \* the gradient-check test that is running
    idx,         \* the sampled parameter indices
    weights_plus,   \* the weights with entry x raised by eps
    weights_minus,  \* the weights with entry x lowered by eps
    loss_plus,   \* the cost evaluated for weights_plus
    loss_minus,  \* the cost evaluated for weights_minus
    ngrad,       \* the finite-difference estimates
    bgrad        \* the unrolled bprop gradient

vars == <<pc, n_nodes, wts_, decay, X, y, act, dE_dW, E, ret,
          args, stacked_ae, X_tf, i, log, fineTuned,
          test, idx, weights_plus, weights_minus, loss_plus, loss_minus, ngrad, bgrad>>

\* the variables only the gradient-check scenario uses
gcvars == <<test, idx, weights_plus, weights_minus, loss_plus, loss_minus, ngrad, bgrad>>

\* the variables only the pre-training scenario uses
ptvars == <<args, stacked_ae, X_tf, i, log, fineTuned>>

\* Python's None (an unset slot, an absent argument)
None == <<>>

(***************************************************************************)
(* Bounds of the model.                                                    *)
(***************************************************************************)
MaxHidden == 2      \* at most this many hidden layers
MaxNodes == 2       \* layer sizes range over 1..MaxNodes
MaxBatch == 2       \* batch sizes m range over 1..MaxBatch
MaxDecay == 2       \* decay coefficients range over 1..MaxDecay
MaxSeed == 1        \* input families are indexed by 0..MaxSeed

(***************************************************************************)
(* numpy on matrices                                                       *)
(***************************************************************************)
Rows(M) == Len(M)
Cols(M) == Len(M[1])

RECURSIVE SumTo(_, _)
\* f[1] + ... + f[n]
SumTo(f, n) == IF n = 0 THEN 0 ELSE f[n] + SumTo(f, n - 1)

\* the element of a one-element set.  The matrix operators below bind their
\* arguments through one-element sets, so that an argument is evaluated once
\* and not again for every entry that reads it.
The(S) == CHOOSE v \in S : TRUE

RECURSIVE DotAt(_, _, _, _, _)
\* A[r][1]*B[1][c] + ... + A[r][n]*B[n][c]
DotAt(A, B, r, c, n) ==
    IF n = 0 THEN 0 ELSE A[r][n] * B[n][c] + DotAt(A, B, r, c, n - 1)

\* np.dot(A, B)
Dot(A, B) ==
    The({[r \in 1..Rows(a) |-> [c \in 1..Cols(b) |-> DotAt(a, b, r, c, Cols(a))]]
         : a \in {A}, b \in {B}})

\* M.T
Transpose(M) ==
    The({[c \in 1..Cols(a) |-> [r \in 1..Rows(a) |-> a[r][c]]] : a \in {M}})

\* A - B, elementwise
MSub(A, B) ==
    The({[r \in 1..Rows(a) |-> [c \in 1..Cols(a) |-> a[r][c] - b[r][c]]]
         : a \in {A}, b \in {B}})

\* dE_da*a*(1-a), elementwise
SigmoidBack(dE_da, a) ==
    The({[r \in 1..Rows(v) |-> [c \in 1..Cols(v) |-> u[r][c] * v[r][c] * (1 - v[r][c])]]
         : u \in {dE_da}, v \in {a}})

\* M[1:], every row but the first
DropBias(M) == The({[r \in 1..(Rows(a) - 1) |-> a[r + 1]] : a \in {M}})

\* l[::-1]
Reverse(l) == The({[t \in 1..Len(a) |-> a[Len(a) + 1 - t]] : a \in {l}})

\* np.sum(M**2)
SumSq(M) ==
    SumTo([r \in 1..Rows(M) |->
              SumTo([c \in 1..Cols(M) |-> M[r][c] * M[r][c]], Cols(M))], Rows(M))

\* G with G[1:] += s*W[1:]
AddDecay(G, s, W) ==
    The({[r \in 1..Rows(g) |->
            [c \in 1..Cols(g) |-> IF r = 1 THEN g[r][c] ELSE g[r][c] + s * w[r][c]]]
         : g \in {G}, w \in {W}})

Shape(M) == <<Rows(M), Cols(M)>>

(***************************************************************************)
(* Inputs: topologies, weights, data, labels, activations                  *)
(***************************************************************************)
Seeds == 0..MaxSeed

\* n_nodes = [d] + n_hid + [k], zero or more hidden layers
Topologies ==
    UNION {[1..(h + 2) -> 1..MaxNodes] : h \in 0..MaxHidden}

\* a deterministic (n1+1) x n2 weight matrix, filled in arange order
WInit(n1, n2, s) ==
    [r \in 1..(n1 + 1) |-> [c \in 1..n2 |-> s + (r - 1) * n2 + c]]

\* one weight matrix per pair of consecutive layers
WColl(nn, s) == [t \in 1..(Len(nn) - 1) |-> WInit(nn[t], nn[t + 1], s + t - 1)]

\* a (d+1) x m data matrix whose first row is the bias row of ones
XInit(d, m, s) ==
    [r \in 1..(d + 1) |-> [j \in 1..m |-> IF r = 1 THEN 1 ELSE (s + r + j) % 3]]

\* a one-hot k x m label matrix
YInit(k, m, s) ==
    [c \in 1..k |-> [j \in 1..m |-> IF ((s + j) % k) + 1 = c THEN 1 ELSE 0]]

\* an activation cache with one entry per weight matrix, in the layout bprop
\* consumes (lines 84-91): every hidden activation carries its leading bias
\* row, the output activation does not.  The values stand for the outputs of
\* nu.sigmoid and nu.softmax, which the cache is filled with.
ActInit(nn, m, s) ==
    [t \in 1..(Len(nn) - 1) |->
        IF t < Len(nn) - 1
        THEN [r \in 1..(nn[t + 1] + 1) |->
                 [j \in 1..m |-> IF r = 1 THEN 1 ELSE 2 + ((s + t + r + j) % 2)]]
        ELSE [r \in 1..nn[t + 1] |-> [j \in 1..m |-> (s + r + j) % 3]]]

(***************************************************************************)
(* DeepAutoencoderClassifier.cost_function and .bprop                       *)
(***************************************************************************)
\* cost_function: the cross-entropy of the cached output activation (kept
\* symbolic: the logarithm is not evaluated) and twice the decay penalty
\* 0.5*decay*sum(wts[-1][1:]**2)
CostFunction(yy, wts, cache, dec) ==
    [xent |-> <<yy, cache[Len(cache)]>>,
     penalty2 |-> dec * SumSq(DropBias(wts[Len(wts)]))]

\* bprop without its final re-reversal: the list dE_dW in reversed layer
\* order, each entry the numerator over the batch size m
BpropReversed(XX, yy, wts0, cache, dec) ==
    LET wts == Reverse(wts0)
        a   == Reverse(cache)
        m   == Cols(XX)
        L   == Len(wts)
        dE_dz[t \in 1..L] ==
            IF t = 1
            THEN MSub(a[1], yy)
            ELSE DropBias(SigmoidBack(Dot(wts[t - 1], dE_dz[t - 1]), a[t]))
    IN  [t \in 1..L |->
            IF t < L
            THEN Dot(a[t + 1], Transpose(dE_dz[t]))
            ELSE AddDecay(Dot(XX, Transpose(dE_dz[L])), m * dec, wts[L])]

\* a bprop that forgets the final re-reversal
BpropNoReverse(XX, yy, wts0, cache, dec) == BpropReversed(XX, yy, wts0, cache, dec)

\* bprop: return dE_dW[::-1]
Bprop(XX, yy, wts0, cache, dec) == Reverse(BpropReversed(XX, yy, wts0, cache, dec))

\* "if not wts: wts = self.wts_"
WtsOrStored(wts) == IF wts = None THEN wts_ ELSE wts

(***************************************************************************)
(* Scenario: forward propagation, then cost and gradient                   *)
(***************************************************************************)
InitBprop ==
    /\ pc = "constructed"
    /\ n_nodes \in Topologies
    /\ \E s \in Seeds, m \in 1..MaxBatch :
          /\ wts_ = WColl(n_nodes, s)
          /\ X = XInit(n_nodes[1], m, s)
          /\ y = YInit(n_nodes[Len(n_nodes)], m, s)
    /\ decay \in 1..MaxDecay
    /\ act = [t \in 1..(Len(n_nodes) - 1) |-> None]
    /\ dE_dW = None
    /\ E = None
    /\ ret = None
    /\ args = None
    /\ stacked_ae = None
    /\ X_tf = None
    /\ i = 0
    /\ log = None
    /\ fineTuned = 0
    /\ test = None
    /\ idx = None
    /\ weights_plus = None
    /\ weights_minus = None
    /\ loss_plus = None
    /\ loss_minus = None
    /\ ngrad = None
    /\ bgrad = None

\* fprop fills the cache slot of every layer, in layer order: act[0], then
\* act[i+1] for every further weight matrix.  What the activation functions
\* compute is an input here (ActInit).
Fprop ==
    /\ pc = "constructed"
    /\ \E s \in Seeds : act' = ActInit(n_nodes, Cols(X), s)
    /\ pc' = "fprop"
    /\ UNCHANGED gcvars
    /\ UNCHANGED <<n_nodes, wts_, decay, X, y, dE_dW, E, ret, ptvars>>

CallCostFunction ==
    /\ pc = "fprop"
    /\ E = None
    /\ \E wts \in {None, WColl(n_nodes, MaxSeed + 1)} :
          E' = <<WtsOrStored(wts), CostFunction(y, WtsOrStored(wts), act, decay)>>
    /\ UNCHANGED gcvars
    /\ UNCHANGED <<pc, n_nodes, wts_, decay, X, y, act, dE_dW, ret, ptvars>>

CallBprop ==
    /\ pc = "fprop"
    /\ dE_dW = None
    /\ \E wts \in {None, WColl(n_nodes, MaxSeed + 1)} :
          dE_dW' = <<WtsOrStored(wts), Bprop(X, y, WtsOrStored(wts), act, decay)>>
    /\ UNCHANGED gcvars
    /\ UNCHANGED <<pc, n_nodes, wts_, decay, X, y, act, E, ret, ptvars>>

NextBprop == Fprop \/ CallCostFunction \/ CallBprop

SpecBprop == InitBprop /\ [][NextBprop]_vars

(***************************************************************************)
(* Claims about cost_function and bprop                                    *)
(***************************************************************************)
\* the number of weight matrices of the topology
NLayers == Len(n_nodes) - 1

\* C1: L2 decay is applied to the output layer only, and alike in cost and
\* gradient: the cost adds 0.5*decay*sum(W^2) over the non-bias rows of the
\* last weight matrix, and the gradients bprop returns differ from the
\* decay-free gradients by decay*W on the non-bias rows of that same last
\* matrix and by nothing anywhere else.
C1_DecayOnOutputLayerOnly ==
    /\ E # None =>
          E[2].penalty2 = decay * SumSq(DropBias(E[1][NLayers]))
    /\ dE_dW # None =>
          LET W  == dE_dW[1]
              G  == dE_dW[2]
              G0 == Bprop(X, y, W, act, 0)
          IN  \A t \in 1..NLayers :
                 \A r \in 1..Rows(W[t]) :
                    \A c \in 1..Cols(W[t]) :
                       G[t][r][c] - G0[t][r][c] =
                          IF t = NLayers /\ r > 1
                          THEN Cols(X) * decay * W[t][r][c]
                          ELSE 0

Py(list, j) == list[j + 1]

\* per-layer setting lists of length n whose entries differ by position
HyperLists(n) == {[t \in 1..n |-> t], [t \in 1..n |-> n + 1 - t]}

WToken(tag, owner, layer, data, hp) ==
    [tag |-> tag, owner |-> owner, layer |-> layer, data |-> data,
     n_iter |-> hp[1], learn_rate |-> hp[2], alpha |-> hp[3]]

\* the weights an object holds after construction
InitW(owner, layer) == WToken("init", owner, layer, <<>>, <<0, 0, 0>>)

\* the raw data matrix X handed to pre_train
RawX == <<WToken("X", 0, 0, <<>>, <<0, 0, 0>>)>>

\* ae.Autoencoder(d=..,n_hid=..,decay=..,rho=..,beta=..); id is the object
Autoencoder(id, d, nh, dec, rho, beta) ==
    [id |-> id, d |-> d, n_hid |-> nh, decay |-> dec, rho |-> rho, beta |-> beta,
     wts_ |-> <<InitW(id, 1), InitW(id, 2)>>, fit |-> None]

\* Autoencoder.fit: the minimiser's result replaces both weight matrices
AEFit(a, data, n_iter, learn_rate, alpha) ==
    [a EXCEPT !.wts_ = <<WToken("fit", a.id, 1, data, <<n_iter, learn_rate, alpha>>),
                         WToken("fit", a.id, 2, data, <<n_iter, learn_rate, alpha>>)>>,
              !.fit = <<data, n_iter, learn_rate, alpha>>]

\* Autoencoder.transform: the hidden activation of data under the encoding weights
AETransform(a, data) == Append(data, a.wts_[1])

\* Network.fit on the classifier itself: fine-tuning of every layer
FineTune(wts) ==
    [t \in 1..Len(wts) |-> WToken("fit", 0, t, <<wts[t]>>, <<0, 0, 0>>)]

InitPreTrain ==
    /\ pc = "new"
    /\ \E d \in 1..MaxNodes, h \in 1..MaxHidden :
          \E nh \in [1..h -> 1..MaxNodes] :
             \E sd \in HyperLists(h), rh \in HyperLists(h), be \in HyperLists(h),
                ni \in HyperLists(h), lr \in HyperLists(h), al \in HyperLists(h) :
                args = [d |-> d, k |-> MaxNodes, n_hid |-> nh, scl_decay |-> MaxDecay,
                        sae_decay |-> sd, rho |-> rh, beta |-> be,
                        n_iter |-> ni, learn_rate |-> lr, alpha |-> al]
    /\ X \in {None, RawX}
    /\ n_nodes = None
    /\ wts_ = None
    /\ decay = 0
    /\ y = None
    /\ act = None
    /\ dE_dW = None
    /\ E = None
    /\ ret = None
    /\ stacked_ae = None
    /\ X_tf = None
    /\ i = 0
    /\ log = <<>>
    /\ fineTuned = 0
    /\ test = None
    /\ idx = None
    /\ weights_plus = None
    /\ weights_minus = None
    /\ loss_plus = None
    /\ loss_minus = None
    /\ ngrad = None
    /\ bgrad = None

\* lines 14-17: the autoencoder built for hidden layer t (1-based)
StackedAE(t) ==
    IF t = 1
    THEN Autoencoder(1, args.d, Py(args.n_hid, 0),
                     Py(args.sae_decay, 0), Py(args.rho, 0), Py(args.beta, 0))
    ELSE LET j == t - 2    \* the i of "for i,(n1,n2) in enumerate(zip(..))"
         IN  Autoencoder(j + 2, Py(args.n_hid, j), Py(args.n_hid, j + 1),
                         Py(args.sae_decay, j), Py(args.rho, j), Py(args.beta, j))

\* __init__
Construct ==
    /\ pc = "new"
    /\ stacked_ae' = [t \in 1..Len(args.n_hid) |-> StackedAE(t)]
    /\ n_nodes' = <<args.d>> \o args.n_hid \o <<args.k>>
    /\ wts_' = [t \in 1..(Len(args.n_hid) + 1) |-> InitW(0, t)]
    /\ decay' = args.scl_decay
    /\ pc' = "L32"
    /\ UNCHANGED gcvars
    /\ UNCHANGED <<X, y, act, dE_dW, E, ret, args, X_tf, i, log, fineTuned>>

\* line 32: if X is not None
PreTrainL32 ==
    /\ pc = "L32"
    /\ pc' = IF X # None THEN "L34" ELSE "end"
    /\ UNCHANGED gcvars
    /\ UNCHANGED <<n_nodes, wts_, decay, X, y, act, dE_dW, E, ret, ptvars>>

\* line 34: self.stacked_ae[0].fit(X, n_iter[0], learn_rate[0], alpha[0])
PreTrainL34 ==
    /\ pc = "L34"
    /\ stacked_ae' = [stacked_ae EXCEPT ![1] =
          AEFit(@, X, Py(args.n_iter, 0), Py(args.learn_rate, 0), Py(args.alpha, 0))]
    /\ log' = Append(log, 1)
    /\ pc' = "L35"
    /\ UNCHANGED gcvars
    /\ UNCHANGED <<n_nodes, wts_, decay, X, y, act, dE_dW, E, ret, args, X_tf, i, fineTuned>>

\* line 35: X_tf = self.stacked_ae[0].transform(X)
PreTrainL35 ==
    /\ pc = "L35"
    /\ X_tf' = AETransform(stacked_ae[1], X)
    /\ pc' = "L36"
    /\ UNCHANGED gcvars
    /\ UNCHANGED <<n_nodes, wts_, decay, X, y, act, dE_dW, E, ret,
                   args, stacked_ae, i, log, fineTuned>>

\* line 36: self.wts_[0] = self.stacked_ae[0].wts_[0]
PreTrainL36 ==
    /\ pc = "L36"
    /\ wts_' = [wts_ EXCEPT ![1] = stacked_ae[1].wts_[1]]
    /\ i' = 0
    /\ pc' = "L39"
    /\ UNCHANGED gcvars
    /\ UNCHANGED <<n_nodes, decay, X, y, act, dE_dW, E, ret,
                   args, stacked_ae, X_tf, log, fineTuned>>

\* line 39: for i,ae in enumerate(self.stacked_ae[1:]); ae is stacked_ae[i+2]
PreTrainL39 ==
    /\ pc = "L39"
    /\ pc' = IF i < Len(stacked_ae) - 1 THEN "L40" ELSE "end"
    /\ UNCHANGED gcvars
    /\ UNCHANGED <<n_nodes, wts_, decay, X, y, act, dE_dW, E, ret, ptvars>>

\* a fit of the next autoencoder on the raw data instead of on X_tf
PreTrainL40RawData ==
    /\ pc = "L40"
    /\ stacked_ae' = [stacked_ae EXCEPT ![i + 2] =
          AEFit(@, X, Py(args.n_iter, i), Py(args.learn_rate, i), Py(args.alpha, i))]
    /\ log' = Append(log, i + 2)
    /\ pc' = "L41"
    /\ UNCHANGED gcvars
    /\ UNCHANGED <<n_nodes, wts_, decay, X, y, act, dE_dW, E, ret, args, X_tf, i, fineTuned>>

\* line 40: ae.fit(X_tf, n_iter[i], learn_rate[i], alpha[i])
PreTrainL40 ==
    /\ pc = "L40"
    /\ stacked_ae' = [stacked_ae EXCEPT ![i + 2] =
          AEFit(@, X_tf, Py(args.n_iter, i), Py(args.learn_rate, i), Py(args.alpha, i))]
    /\ log' = Append(log, i + 2)
    /\ pc' = "L41"
    /\ UNCHANGED gcvars
    /\ UNCHANGED <<n_nodes, wts_, decay, X, y, act, dE_dW, E, ret, args, X_tf, i, fineTuned>>

\* a copy that takes the encoding weights of the previous autoencoder
PreTrainL41PreviousAE ==
    /\ pc = "L41"
    /\ wts_' = [wts_ EXCEPT ![i + 2] = stacked_ae[i + 1].wts_[1]]
    /\ pc' = "L42"
    /\ UNCHANGED gcvars
    /\ UNCHANGED <<n_nodes, decay, X, y, act, dE_dW, E, ret, ptvars>>

\* line 41: self.wts_[i+1] = ae.wts_[0]
PreTrainL41 ==
    /\ pc = "L41"
    /\ wts_' = [wts_ EXCEPT ![i + 2] = stacked_ae[i + 2].wts_[1]]
    /\ pc' = "L42"
    /\ UNCHANGED gcvars
    /\ UNCHANGED <<n_nodes, decay, X, y, act, dE_dW, E, ret, ptvars>>

\* line 42: X_tf = ae.transform(X_tf), and the loop's next index
PreTrainL42 ==
    /\ pc = "L42"
    /\ X_tf' = AETransform(stacked_ae[i + 2], X_tf)
    /\ i' = i + 1
    /\ pc' = "L39"
    /\ UNCHANGED gcvars
    /\ UNCHANGED <<n_nodes, wts_, decay, X, y, act, dE_dW, E, ret,
                   args, stacked_ae, log, fineTuned>>

\* a pre_train that ends with a fine-tuning of the whole stack
PreTrainReturnFineTuned ==
    /\ pc = "end"
    /\ wts_' = FineTune(wts_)
    /\ fineTuned' = fineTuned + 1
    /\ pc' = "returned"
    /\ UNCHANGED gcvars
    /\ UNCHANGED <<n_nodes, decay, X, y, act, dE_dW, E, ret,
                   args, stacked_ae, X_tf, i, log>>

\* pre_train falls off its last statement and returns
PreTrainReturn ==
    /\ pc = "end"
    /\ pc' = "returned"
    /\ UNCHANGED gcvars
    /\ UNCHANGED <<n_nodes, wts_, decay, X, y, act, dE_dW, E, ret, ptvars>>

\* the caller's own, later, fit of the classifier (fine-tuning)
Fit ==
    /\ pc = "returned"
    /\ wts_' = FineTune(wts_)
    /\ fineTuned' = fineTuned + 1
    /\ pc' = "fitted"
    /\ UNCHANGED gcvars
    /\ UNCHANGED <<n_nodes, decay, X, y, act, dE_dW, E, ret,
                   args, stacked_ae, X_tf, i, log>>

NextPreTrain ==
    \/ Construct
    \/ PreTrainL32
    \/ PreTrainL34
    \/ PreTrainL35
    \/ PreTrainL36
    \/ PreTrainL39
    \/ PreTrainL40
    \/ PreTrainL41
    \/ PreTrainL42
    \/ PreTrainReturn
    \/ Fit

SpecPreTrain == InitPreTrain /\ [][NextPreTrain]_vars

(***************************************************************************)
(* Claims about __init__ and pre_train                                     *)
(***************************************************************************)
\* the number of hidden layers, len(n_hid)
NHid == Len(args.n_hid)

\* pre_train(X, ...) with X supplied has returned, and nothing ran since
PreTrained == pc = "returned" /\ X # None

\* C2: after pre_train(X, ...) returns, every hidden layer's weight matrix
\* wts_[t] is the encoding matrix of autoencoder t as it is after that
\* autoencoder's own fit.
C2_WeightsAreTrainedEncoders ==
    PreTrained =>
       \A t \in 1..NHid :
          /\ wts_[t] = stacked_ae[t].wts_[1]
          /\ wts_[t].tag = "fit"
          /\ wts_[t].owner = t
          /\ wts_[t].layer = 1

\* C2 witness: pre_train has returned for a stack of two or more autoencoders
C2_Witness == PreTrained /\ NHid >= 2 /\ wts_[2] = stacked_ae[2].wts_[1]

\* the data autoencoder t must be fitted on: X passed through the transforms
\* of autoencoders 1 .. t-1, in that order, each with its fitted encoder
GreedyData(t) == RawX \o [j \in 1..(t - 1) |-> stacked_ae[j].wts_[1]]

C4_FineTunedOnReturn == PreTrained => fineTuned > 0

\* C4 as amended: when pre_train returns, every autoencoder is fitted and its
\* encoder copied, and no minimisation over the network's own weights has
\* run: the output layer still holds its initial weights.
C4_ReturnsWithoutFineTuning ==
    PreTrained =>
       /\ fineTuned = 0
       /\ \A t \in 1..NHid : stacked_ae[t].fit # None /\ wts_[t].owner = t
       /\ wts_[NHid + 1] = InitW(0, NHid + 1)

\* C4 witness: pre_train has returned with all autoencoders fitted
C4_Witness ==
    /\ PreTrained
    /\ Len(log) = NHid
    /\ NHid >= 2
    /\ fineTuned = 0

\* C10: autoencoder t is built with input size n_hid[t-1] (d for the first),
\* hidden size n_hid[t] and the t-th entries of sae_decay, rho and beta, and
\* is fitted with the t-th entries of n_iter, learn_rate and alpha.
C10_PerLayerSettings ==
    pc # "new" =>
       \A t \in 1..NHid :
          LET a == stacked_ae[t]
          IN  /\ a.d = IF t = 1 THEN args.d ELSE args.n_hid[t - 1]
              /\ a.n_hid = args.n_hid[t]
              /\ a.decay = args.sae_decay[t]
              /\ a.rho = args.rho[t]
              /\ a.beta = args.beta[t]
              /\ a.fit # None =>
                    /\ a.fit[2] = args.n_iter[t]
                    /\ a.fit[3] = args.learn_rate[t]
                    /\ a.fit[4] = args.alpha[t]

(***************************************************************************)
(* The gradient-check tests of NeuralNetworkCore_test.py                   *)
(*                                                                         *)
(* Weights are integers in units of 1e-5.  The activation cache is kept as *)
(* the pair <<input, weights>> it was computed from, a cost as the triple  *)
(* <<weights passed, cache read, call made just before>>.                  *)
(***************************************************************************)
TestD == 5            \* self.d
TestK == 3            \* self.k
HidUnits1 == 3        \* size of the first hidden layer (50 in the tests)
HidUnits2 == 3        \* size of the second hidden layer (25 in the tests)
SampleDivisor == 20   \* idx = permutation(n)[:(n/20)]
EpsAutoencoder == 10  \* eps = 1e-4
EpsSoftmax == 1       \* eps = 1e-5

Tests == {"Autoencoder", "single_layer", "multi_layer"}

\* the topology each test builds
TestNodes(t) ==
    CASE t = "Autoencoder"  -> <<TestD, HidUnits1, TestD>>
      [] t = "single_layer" -> <<TestD, HidUnits1, TestK>>
      [] t = "multi_layer"  -> <<TestD, HidUnits1, HidUnits2, TestK>>

Eps(t) == IF t = "Autoencoder" THEN EpsAutoencoder ELSE EpsSoftmax

\* 0.01*cos(j) for j = 0, 1, 2, .., rounded to units of 1e-5
CosTable ==
    <<1000, 540, -416, -990, -654, 284, 960, 754, -146, -911, -839, 4,
      844, 907, 137, -760, -958, -275, 660, 989, 408, -548, -1000, -533,
      424, 991, 647, -292, -963, -748, 154, 915, 834, -13, -849, -904,
      -128, 765, 955, 267, -667, -987, -400, 555, 1000, 525, -432, -992>>

\* 0.01*np.cos(np.arange((n1+1)*n2)).reshape(n1+1,n2), for every layer
CosWeights(nn) ==
    [t \in 1..(Len(nn) - 1) |->
        [r \in 1..(nn[t] + 1) |->
            [c \in 1..nn[t + 1] |-> CosTable[(r - 1) * nn[t + 1] + c]]]]

RECURSIVE SizeUpTo(_, _)
\* the number of entries of the first t weight matrices
SizeUpTo(nn, t) ==
    IF t = 0 THEN 0 ELSE (nn[t] + 1) * nn[t + 1] + SizeUpTo(nn, t - 1)

\* n = sum(np.size(w) for w in nnet.wts_)
ParamCount(wts) ==
    SumTo([t \in 1..Len(wts) |-> Rows(wts[t]) * Cols(wts[t])], Len(wts))

\* a matrix as a vector, row after row
Flatten(M) ==
    [q \in 1..(Rows(M) * Cols(M)) |-> M[((q - 1) \div Cols(M)) + 1][((q - 1) % Cols(M)) + 1]]

RECURSIVE UnrollTo(_, _)
UnrollTo(wts, t) == IF t = 0 THEN <<>> ELSE UnrollTo(wts, t - 1) \o Flatten(wts[t])

\* nnetutils.unroll: a fresh vector, the matrices one after another
Unroll(wts) == UnrollTo(wts, Len(wts))

\* nnetutils.reroll: the vector cut back into matrices of the topology
Reroll(w, nn) ==
    [t \in 1..(Len(nn) - 1) |->
        [r \in 1..(nn[t] + 1) |->
            [c \in 1..nn[t + 1] |-> w[SizeUpTo(nn, t - 1) + (r - 1) * nn[t + 1] + c]]]]

\* w[x] += e, x counted from 0
AddAt(w, x, e) == [w EXCEPT ![x + 1] = @ + e]

\* np.random.permutation(n)[:(n/20)]: any n/20 different indices, in any order
Sample(n) ==
    {q \in [1..(n \div SampleDivisor) -> 0..(n - 1)] :
        \A a, b \in DOMAIN q : a # b => q[a] # q[b]}

\* the variables the gradient-check scenario leaves alone
gcrest == <<n_nodes, decay, X, y, dE_dW, E, args, stacked_ae, X_tf, fineTuned>>

InitGradCheck ==
    /\ pc = "T32"
    /\ test \in Tests
    /\ n_nodes = TestNodes(test)
    /\ wts_ = CosWeights(n_nodes)
    /\ X = <<"self.X">>
    /\ y = IF test = "Autoencoder" THEN <<"self.X[1:]">> ELSE <<"self.y">>
    /\ decay = 0
    /\ act = None
    /\ dE_dW = None
    /\ E = None
    /\ ret = None
    /\ args = None
    /\ stacked_ae = None
    /\ X_tf = None
    /\ i = 0
    /\ log = None
    /\ fineTuned = 0
    /\ idx = None
    /\ weights_plus = None
    /\ weights_minus = None
    /\ loss_plus = None
    /\ loss_minus = None
    /\ ngrad = None
    /\ bgrad = None

\* line 32: nnet.fprop(self.X)
TestFprop ==
    /\ pc = "T32"
    /\ act' = <<X, wts_>>
    /\ log' = <<"fprop", wts_>>
    /\ pc' = "T33"
    /\ UNCHANGED <<wts_, ret, i, test, idx, weights_plus, weights_minus,
                   loss_plus, loss_minus, ngrad, bgrad>>
    /\ UNCHANGED gcrest

\* lines 33-34: bgrad = unroll(nnet.bprop(self.X, y)), computed from the cache
TestBprop ==
    /\ pc = "T33"
    /\ bgrad' = <<"bprop", act>>
    /\ log' = <<"bprop", wts_>>
    /\ pc' = "T42"
    /\ UNCHANGED <<wts_, act, ret, i, test, idx, weights_plus, weights_minus,
                   loss_plus, loss_minus, ngrad>>
    /\ UNCHANGED gcrest

\* lines 41-43: n, idx, ngrad
TestSample ==
    /\ pc = "T42"
    /\ idx' \in Sample(ParamCount(wts_))
    /\ ngrad' = [q \in 1..Len(idx') |-> None]
    /\ i' = 0
    /\ pc' = "T45"
    /\ UNCHANGED <<wts_, act, ret, log, test, weights_plus, weights_minus,
                   loss_plus, loss_minus, bgrad>>
    /\ UNCHANGED gcrest

\* line 45: for i,x in enumerate(idx)
TestLoop ==
    /\ pc = "T45"
    /\ pc' = IF i < Len(idx) THEN "T46" ELSE "T64"
    /\ UNCHANGED <<wts_, act, ret, i, log, test, idx, weights_plus, weights_minus,
                   loss_plus, loss_minus, ngrad, bgrad>>
    /\ UNCHANGED gcrest

\* lines 46-53: unroll twice, perturb entry x, reroll
TestPerturb ==
    /\ pc = "T46"
    /\ LET x == Py(idx, i)
           w_plus == AddAt(Unroll(wts_), x, Eps(test))
           w_minus == AddAt(Unroll(wts_), x, 0 - Eps(test))
       IN  /\ weights_plus' = Reroll(w_plus, n_nodes)
           /\ weights_minus' = Reroll(w_minus, n_nodes)
    /\ pc' = "T56"
    /\ UNCHANGED <<wts_, act, ret, i, log, test, idx, loss_plus, loss_minus, ngrad, bgrad>>
    /\ UNCHANGED gcrest

\* line 56: nnet.fprop(self.X, weights_plus)
TestFpropPlus ==
    /\ pc = "T56"
    /\ act' = <<X, weights_plus>>
    /\ log' = <<"fprop", weights_plus>>
    /\ pc' = "T57"
    /\ UNCHANGED <<wts_, ret, i, test, idx, weights_plus, weights_minus,
                   loss_plus, loss_minus, ngrad, bgrad>>
    /\ UNCHANGED gcrest

\* line 57: loss_plus = nnet.cost(.., wts=weights_plus)
TestCostPlus ==
    /\ pc = "T57"
    /\ loss_plus' = <<weights_plus, act, log>>
    /\ log' = <<"cost", weights_plus>>
    /\ pc' = "T58"
    /\ UNCHANGED <<wts_, act, ret, i, test, idx, weights_plus, weights_minus,
                   loss_minus, ngrad, bgrad>>
    /\ UNCHANGED gcrest

\* a forward propagation that is given weights_plus a second time
TestFpropMinusStale ==
    /\ pc = "T58"
    /\ act' = <<X, weights_plus>>
    /\ log' = <<"fprop", weights_plus>>
    /\ pc' = "T59"
    /\ UNCHANGED <<wts_, ret, i, test, idx, weights_plus, weights_minus,
                   loss_plus, loss_minus, ngrad, bgrad>>
    /\ UNCHANGED gcrest

\* line 58: nnet.fprop(self.X, weights_minus)
TestFpropMinus ==
    /\ pc = "T58"
    /\ act' = <<X, weights_minus>>
    /\ log' = <<"fprop", weights_minus>>
    /\ pc' = "T59"
    /\ UNCHANGED <<wts_, ret, i, test, idx, weights_plus, weights_minus,
                   loss_plus, loss_minus, ngrad, bgrad>>
    /\ UNCHANGED gcrest

\* line 59: loss_minus = nnet.cost(.., wts=weights_minus)
TestCostMinus ==
    /\ pc = "T59"
    /\ loss_minus' = <<weights_minus, act, log>>
    /\ log' = <<"cost", weights_minus>>
    /\ pc' = "T61"
    /\ UNCHANGED <<wts_, act, ret, i, test, idx, weights_plus, weights_minus,
                   loss_plus, ngrad, bgrad>>
    /\ UNCHANGED gcrest

\* line 61: ngrad[i] = (loss_plus-loss_minus)/(2*eps), and the next index
TestNgrad ==
    /\ pc = "T61"
    /\ ngrad' = [ngrad EXCEPT ![i + 1] = <<loss_plus, loss_minus, 2 * Eps(test)>>]
    /\ i' = i + 1
    /\ pc' = "T45"
    /\ UNCHANGED <<wts_, act, ret, log, test, idx, weights_plus, weights_minus,
                   loss_plus, loss_minus, bgrad>>
    /\ UNCHANGED gcrest

\* lines 64-65: cerr = mean(abs(ngrad-bgrad[idx])), compared with err_tol
TestCompare ==
    /\ pc = "T64"
    /\ ret' = <<ngrad, bgrad, idx>>
    /\ pc' = "done"
    /\ UNCHANGED <<wts_, act, i, log, test, idx, weights_plus, weights_minus,
                   loss_plus, loss_minus, ngrad, bgrad>>
    /\ UNCHANGED gcrest

NextGradCheck ==
    \/ TestFprop
    \/ TestBprop
    \/ TestSample
    \/ TestLoop
    \/ TestPerturb
    \/ TestFpropPlus
    \/ TestCostPlus
    \/ TestFpropMinus
    \/ TestCostMinus
    \/ TestNgrad
    \/ TestCompare

SpecGradCheck == InitGradCheck /\ [][NextGradCheck]_vars

(***************************************************************************)
(* Claims about the gradient-check tests                                   *)
(***************************************************************************)
\* C6: the sampled index set holds 20% of the n parameters (n/5 of them,
\* rounded down), its indices are pairwise different and lie in 0..n-1.
C6_SampleIsTwentyPercent ==
    idx # None =>
       LET n == ParamCount(wts_)
       IN  /\ Len(idx) = n \div 5
           /\ \A a, b \in 1..Len(idx) : a # b => idx[a] # idx[b]
           /\ \A a \in 1..Len(idx) : idx[a] \in 0..(n - 1)

\* W differs from the stored weights in entry x (counted from 0 in the
\* unrolled vector) by e, and in nothing else
PerturbedAt(W, x, e) ==
    /\ Len(W) = Len(wts_)
    /\ \A t \in 1..Len(W) : Shape(W[t]) = Shape(wts_[t])
    /\ \A t \in 1..Len(W) :
          \A r \in 1..Rows(W[t]) :
             \A c \in 1..Cols(W[t]) :
                W[t][r][c] = wts_[t][r][c] +
                   (IF SizeUpTo(n_nodes, t - 1) + (r - 1) * Cols(W[t]) + c = x + 1
                    THEN e ELSE 0)

\* a cost evaluated for W right after a forward propagation of X with W
FreshCost(loss, W) ==
    /\ loss[1] = W
    /\ loss[2] = <<X, W>>
    /\ loss[3] = <<"fprop", W>>

\* C9: the loop never changes the stored weights; the two collections it
\* evaluates differ from them in entry x alone, by +eps and -eps; each cost
\* is evaluated right after a forward propagation of the same input with
\* the very weights passed to it; and the analytic gradient comes from the
\* cache of a forward propagation at the stored weights.
C9_PerturbOneEntryFreshCache ==
    /\ wts_ = CosWeights(n_nodes)
    /\ bgrad # None => bgrad = <<"bprop", <<X, wts_>>>>
    /\ pc \in {"T56", "T57", "T58", "T59", "T61"} =>
          /\ PerturbedAt(weights_plus, Py(idx, i), Eps(test))
          /\ PerturbedAt(weights_minus, Py(idx, i), 0 - Eps(test))
    /\ pc \in {"T58", "T59", "T61"} => FreshCost(loss_plus, weights_plus)
    /\ pc = "T61" => FreshCost(loss_minus, weights_minus)
    /\ ngrad # None =>
          \A q \in 1..Len(ngrad) :
             ngrad[q] # None =>
                /\ PerturbedAt(ngrad[q][1][1], idx[q], Eps(test))
                /\ PerturbedAt(ngrad[q][2][1], idx[q], 0 - Eps(test))
                /\ FreshCost(ngrad[q][1], ngrad[q][1][1])
                /\ FreshCost(ngrad[q][2], ngrad[q][2][1])

\* C9 witness: a test has finished a loop of two or more iterations
C9_Witness ==
    /\ pc = "done"
    /\ Len(idx) >= 2
    /\ \A q \in 1..Len(ngrad) : ngrad[q] # None

(***************************************************************************)
(* DeepAutoencoderClassifier.predict                                       *)
(*                                                                         *)
(* The misclassification rate is kept as <<numerator, denominator>>.       *)
(***************************************************************************)
MaxScore == 1       \* final activations range over 0..MaxScore

\* np.argmax(M, axis=0): per column, the 0-based row of the first maximum
ArgMax(M) ==
    [j \in 1..Cols(M) |->
        (CHOOSE r \in 1..Rows(M) :
            /\ \A q \in 1..Rows(M) : M[q][j] <= M[r][j]
            /\ \A q \in 1..(r - 1) : M[q][j] < M[r][j]) - 1]

\* 1.0 - np.mean(1.0*(pred == truth)), as a fraction over m
MisclassificationRate(pred, truth) ==
    LET m == Len(pred)
        hits == SumTo([j \in 1..m |-> IF pred[j] = truth[j] THEN 1 ELSE 0], m)
    IN  <<m - hits, m>>

\* the truth value "if y==None:" tests.  None == None is True.  An array
\* compared with None is the scalar False under numpy before 1.13 and an
\* array of False, one per entry, from numpy 1.13 on; the truth value of
\* such an array is an error when it has more than one entry.
IfEqNone(yy, elementwise) ==
    IF yy = None THEN "True"
    ELSE IF elementwise /\ Rows(yy) * Cols(yy) > 1 THEN "ValueError"
    ELSE "False"

\* predict(X, y) once forward propagation has left scores in self.act[-1]
PredictResult(scores, yy, elementwise) ==
    LET pred == ArgMax(scores)
        test_ == IfEqNone(yy, elementwise)
    IN  CASE test_ = "True" -> <<"return", pred>>
          [] test_ = "ValueError" -> <<"raise", "ValueError">>
          [] test_ = "False" ->
                <<"return", pred, MisclassificationRate(pred, ArgMax(yy))>>

InitPredict ==
    /\ pc = "predict"
    /\ \E m \in 1..MaxBatch, k \in 1..MaxNodes :
          /\ X = [r \in 1..1 |-> [j \in 1..m |-> 0]]
          /\ n_nodes = <<1, k>>
          /\ \/ y = None
             \/ \E lab \in [1..m -> 1..k] :
                   y = [c \in 1..k |-> [j \in 1..m |-> IF lab[j] = c THEN 1 ELSE 0]]
    /\ wts_ = None
    /\ decay = 0
    /\ act = None
    /\ dE_dW = None
    /\ E = None
    /\ ret = None
    /\ args = None
    /\ stacked_ae = None
    /\ X_tf = None
    /\ i = 0
    /\ log = None
    /\ fineTuned = 0
    /\ test = None
    /\ idx = None
    /\ weights_plus = None
    /\ weights_minus = None
    /\ loss_plus = None
    /\ loss_minus = None
    /\ ngrad = None
    /\ bgrad = None

\* predict: forward propagation fills the cache, then lines 118-123
Predict ==
    /\ pc = "predict"
    /\ \E scores \in [1..n_nodes[2] -> [1..Cols(X) -> 0..MaxScore]],
          elementwise \in BOOLEAN :
          /\ act' = <<scores>>
          /\ ret' = PredictResult(scores, y, elementwise)
    /\ pc' = "returned"
    /\ UNCHANGED gcvars
    /\ UNCHANGED <<n_nodes, wts_, decay, X, y, dE_dW, E, ptvars>>

NextPredict == Predict

SpecPredict == InitPredict /\ [][NextPredict]_vars

(***************************************************************************)
(* Claims about predict                                                    *)
(***************************************************************************)
\* the examples whose predicted class differs from the labelled class
Mismatched ==
    {j \in 1..Cols(X) : \E c \in 1..Rows(y) : y[c][j] = 1 /\ ArgMax(act[1])[j] # c - 1}

\* C8: predict(X, y) with one-hot labels returns the per-example arg-max
\* classes and the fraction of examples whose class differs from the
\* label's, a rate in [0,1] that is 0 exactly when every prediction matches;
\* predict(X) without labels returns the predictions alone.
C8_PredictReturnsRate ==
    pc = "returned" =>
       /\ ret[1] = "return"
       /\ ret[2] = ArgMax(act[1])
       /\ y = None => Len(ret) = 2
       /\ y # None =>
             /\ Len(ret) = 3
             /\ ret[3] = <<Cardinality(Mismatched), Cols(X)>>
             /\ 0 <= ret[3][1] /\ ret[3][1] <= ret[3][2]
             /\ ret[3][1] = 0 <=> Mismatched = {}

====
